---- MODULE Spec2Model ----
(***************************************************************************)
(* Model of flask/app.py: the POST /upload request handler (upload_file),  *)
(* the extension validator (allowed_file) and the video pipeline           *)
(* (process_video), together with the two directories they write to.       *)
(*                                                                         *)
(* Strings are sequences of one-character strings, so that rsplit, lower   *)
(* and the f-string formatting are computed and not assumed.  The detector *)
(* (model(...)), the codec library (cv2) and the storage (file.save) are   *)
(* external: each call either raises or returns one of a bounded set of    *)
(* values.  cv2.destroyAllWindows() is a no-op, no window is ever created. *)
(* uuid.uuid4() returns an identifier it has not returned before.          *)
(***************************************************************************)
EXTENDS Integers, Sequences, FiniteSets, TLC

VARIABLES req, disk, issued, received, ut

vars == <<req, disk, issued, received, ut>>

(***************************************************************************)
(* Bounds of the model.                                                    *)
(***************************************************************************)
NumWorkers == 2      \* handler threads of the server
MaxRequests == 2     \* requests received in one run
MaxFrames == 2       \* frames a source video holds at most
MaxBoxes == 2        \* boxes the detector reports at most for one image
MaxDim == 2          \* native widths and heights 0..MaxDim
MaxParts == 3        \* parts a generated filename is built from at most

Workers == 1..NumWorkers

(***************************************************************************)
(* Configuration (module level of app.py).                                 *)
(***************************************************************************)
UPLOAD_FOLDER == <<"static/uploads">>
RESULT_FOLDER == <<"static/results">>

ALLOWED_EXTENSIONS ==
    [image |-> {<<"p","n","g">>, <<"j","p","g">>, <<"j","p","e","g">>},
     video |-> {<<"m","p","4">>, <<"m","o","v">>, <<"a","v","i">>,
                <<"w","e","b","m">>}]

(***************************************************************************)
(* String helpers: str.lower, `in`, str.rsplit(sep, 1), str(int).          *)
(***************************************************************************)
UpperCase == <<"A","B","C","D","E","F","G","H","I","J","K","L","M",
               "N","O","P","Q","R","S","T","U","V","W","X","Y","Z">>
LowerCase == <<"a","b","c","d","e","f","g","h","i","j","k","l","m",
               "n","o","p","q","r","s","t","u","v","w","x","y","z">>

LowerChar(c) ==
    IF \E i \in 1..26 : UpperCase[i] = c
    THEN LowerCase[CHOOSE i \in 1..26 : UpperCase[i] = c]
    ELSE c

\* a plausible slip: the suffix is compared as typed
lower_Identity(s) == s

lower(s) == [i \in 1..Len(s) |-> LowerChar(s[i])]

Contains(c, s) == \E i \in 1..Len(s) : s[i] = c

RECURSIVE rfind(_, _, _)
rfind(s, c, i) ==
    IF i = 0 THEN 0
    ELSE IF s[i] = c THEN i
    ELSE rfind(s, c, i - 1)

rsplit1(s, c) ==
    LET i == rfind(s, c, Len(s))
    IN  IF i = 0 THEN <<s>>
        ELSE <<SubSeq(s, 1, i - 1), SubSeq(s, i + 1, Len(s))>>

DigitChars == <<"0","1","2","3","4","5","6","7","8","9">>

RECURSIVE IntToStr(_)
IntToStr(n) ==
    IF n < 10 THEN <<DigitChars[n + 1]>>
    ELSE IntToStr(n \div 10) \o <<DigitChars[(n % 10) + 1]>>

(***************************************************************************)
(* allowed_file(filename, mode).  The result is a record: raised tells     *)
(* whether the call raised (a KeyError of ALLOWED_EXTENSIONS[mode]), value *)
(* is the boolean it returned otherwise.                                   *)
(***************************************************************************)
allowed_file(filename, mode) ==
    IF ~ Contains(".", filename)
    THEN [raised |-> FALSE, value |-> FALSE]
    ELSE IF mode \notin DOMAIN ALLOWED_EXTENSIONS
    THEN [raised |-> TRUE, value |-> FALSE]
    ELSE [raised |-> FALSE,
          value  |-> lower(rsplit1(filename, ".")[2])
                        \in ALLOWED_EXTENSIONS[mode]]

(***************************************************************************)
(* Paths and names built by upload_file.                                   *)
(***************************************************************************)
join(folder, filename) == folder \o <<"/">> \o filename

\* a plausible slip: the upload is stored under a name without the uuid
StoredName_NoUuid(u, ext) == <<"upload">> \o <<".">> \o ext

\* f"{str(uuid.uuid4())}.{ext}", u being the number of the uuid drawn
StoredName(u, ext) == <<"u">> \o IntToStr(u) \o <<".">> \o ext

ResultName(filename) == <<"result_">> \o filename

UploadUrl(filename) == <<"/static/uploads/">> \o filename
ResultUrl(result_filename) == <<"/static/results/">> \o result_filename

InUploads(p) == Len(p) > 0 /\ p[1] = UPLOAD_FOLDER[1]

(***************************************************************************)
(* The disk: a function from the paths that exist to what they hold.       *)
(* owner is the serial number of the request that wrote the file.          *)
(***************************************************************************)
File(owner, kind, frames) == [owner |-> owner, kind |-> kind, frames |-> frames]

WriteFile(d, p, f) == (p :> f) @@ d

\* os.path.exists(p) followed by os.remove(p)
RemoveIfExists(d, p) ==
    IF p \in DOMAIN d THEN [q \in DOMAIN d \ {p} |-> d[q]] ELSE d

RECURSIVE RemoveAll(_, _)
RemoveAll(d, ps) ==
    IF ps = {} THEN d
    ELSE LET p == CHOOSE q \in ps : TRUE
         IN  RemoveAll(RemoveIfExists(d, p), ps \ {p})

(***************************************************************************)
(* Responses.  A body is the record jsonify is given.                      *)
(***************************************************************************)
NoBody == [pending |-> TRUE]

Response(status, body) == [status |-> status, body |-> body]

\* the handler of the outer try (lines 170-173)
OuterExcept == Response(500, [error |-> "Internal server error"])

\* request.form.get('mode', 'image')
FormGet(form) == IF form = "absent" THEN "image" ELSE form

\* bool(file) of a werkzeug FileStorage is bool(file.filename)
FileIsTruthy(filename) == filename # <<>>

\* a plausible slip: the extension check is made before the empty-name check
Validation_TypeFirst(hasFile, filename, form) ==
    LET mode == FormGet(form)
        af   == allowed_file(filename, mode)
    IN  IF ~ hasFile
        THEN [pass |-> FALSE, resp |-> Response(400, [error |-> "No file part"])]
        ELSE IF af.raised
        THEN [pass |-> FALSE, resp |-> OuterExcept]
        ELSE IF ~ FileIsTruthy(filename) \/ ~ af.value
        THEN [pass |-> FALSE,
              resp |-> Response(400,
                         [error |-> "Invalid file type for " \o mode \o " mode"])]
        ELSE [pass |-> TRUE, resp |-> Response(0, NoBody)]

\* lines 98-108 of upload_file: the checks made before anything is stored
Validation(hasFile, filename, form) ==
    LET mode == FormGet(form)
    IN  IF ~ hasFile
        THEN [pass |-> FALSE, resp |-> Response(400, [error |-> "No file part"])]
        ELSE IF filename = <<>>
        THEN [pass |-> FALSE,
              resp |-> Response(400, [error |-> "No selected file"])]
        ELSE IF ~ FileIsTruthy(filename)
        THEN [pass |-> FALSE,
              resp |-> Response(400,
                         [error |-> "Invalid file type for " \o mode \o " mode"])]
        ELSE IF allowed_file(filename, mode).raised
        THEN [pass |-> FALSE, resp |-> OuterExcept]
        ELSE IF ~ allowed_file(filename, mode).value
        THEN [pass |-> FALSE,
              resp |-> Response(400,
                         [error |-> "Invalid file type for " \o mode \o " mode"])]
        ELSE [pass |-> TRUE, resp |-> Response(0, NoBody)]

(***************************************************************************)
(* The detector's results and the statistics built from them.              *)
(***************************************************************************)
\* results[0].names of the loaded weights: class index -> name; two
\* indices may carry the same name
names == (0 :> "cat") @@ (1 :> "dog") @@ (2 :> "cat")

Classes == DOMAIN names

BoxSeqs == UNION {[1..n -> Classes] : n \in 0..MaxBoxes}

\* results[0].orig_shape, (height, width)
ImageShapes == {<<2, 3>>}

\* lines 130-132: detected_objects = set(); add the name of every box
RECURSIVE AddAll(_, _)
AddAll(boxes, acc) ==
    IF boxes = <<>> THEN acc
    ELSE AddAll(Tail(boxes), acc \cup {names[Head(boxes)]})

\* list(a_set): the elements once each, in an order that is not fixed
ListsOfSet(S) ==
    {s \in [1..Cardinality(S) -> S] :
        \A i, j \in 1..Cardinality(S) : i # j => s[i] # s[j]}

\* a plausible slip: the names are appended to a list, one per box
DetectedLists_Append(boxes) == {[i \in 1..Len(boxes) |-> names[boxes[i]]]}

\* the values list(detected_objects) can take for the boxes of a result
DetectedLists(boxes) == ListsOfSet(AddAll(boxes, {}))

(***************************************************************************)
(* process_video helpers.                                                  *)
(***************************************************************************)
\* a plausible slip: an odd dimension is rounded up
EvenClamp_Up(x) == IF x % 2 = 0 THEN x ELSE x + 1

\* lines 63-64: x if x % 2 == 0 else x - 1
EvenClamp(x) == IF x % 2 = 0 THEN x ELSE x - 1

\* f"{width}x{height}"
FormatResolution(width, height) == IntToStr(width) \o <<"x">> \o IntToStr(height)

Dims == 0..MaxDim
Sizes == (Dims \X Dims) \cup {<<639, 480>>, <<480, 639>>}
Rates == {25}

NoHandle == [acquired |-> FALSE, opened |-> FALSE, released |-> FALSE]
Acquire(isOpened) == [acquired |-> TRUE, opened |-> isOpened, released |-> FALSE]

\* `if h is not None: h.release()`
Release(h) == IF h.acquired THEN [h EXCEPT !.released = TRUE] ELSE h

\* a plausible slip: the capture is released only when a writer exists
ReleaseBoth_Nested(cap, out) ==
    IF out.acquired
    THEN [cap |-> Release(cap), out |-> Release(out)]
    ELSE [cap |-> cap, out |-> out]

\* lines 84-88: the finally block of process_video
ReleaseBoth(cap, out) == [cap |-> Release(cap), out |-> Release(out)]

\* the value process_video returns: the stats dict, or False
Stats(width, height, fps) ==
    [ok |-> TRUE, resolution |-> FormatResolution(width, height), fps |-> fps]
FalseStats == [ok |-> FALSE, resolution |-> <<>>, fps |-> 0]

\* a plausible slip: the failure sentinel is read like a dict
SubscriptRaises_Never(video_stats) == FALSE

\* video_stats['resolution'] raises TypeError when video_stats is False
SubscriptRaises(video_stats) == ~ video_stats.ok

\* a plausible slip: the failure cleanup skips the result file
CleanupPaths_None(upload_path, result_path) == {}

\* a plausible slip: the failure cleanup also removes the stored upload
CleanupPaths_Both(upload_path, result_path) == {upload_path, result_path}

\* lines 164-165: the paths the failure cleanup removes
CleanupPaths(upload_path, result_path) == {result_path}

(***************************************************************************)
(* State.  req[w] is the request in the hands of handler thread w:         *)
(* its inputs, the locals of upload_file and process_video, its position   *)
(* pc, and the response once it has one.                                   *)
(***************************************************************************)
\* what the uploaded bytes hold, as the libraries will decode them: the
\* native size and the number of frames of a video, the boxes the detector
\* finds in an image
Content(size, frames, boxes) == [size |-> size, frames |-> frames, boxes |-> boxes]
NoContent == Content(<<0, 0>>, 0, <<>>)

IdleReq ==
    [pc |-> "idle", id |-> 0,
     hasFile |-> FALSE, filename |-> <<>>, form |-> "absent",
     content |-> NoContent,
     mode |-> "", name |-> <<>>, upload_path |-> <<>>, result_path |-> <<>>,
     boxes |-> <<>>,
     cap |-> NoHandle, out |-> NoHandle, width |-> 0, height |-> 0,
     native |-> <<0, 0>>, writer_size |-> <<0, 0>>,
     fps |-> 0, nread |-> 0, video_stats |-> FalseStats,
     returned |-> FALSE, exc |-> "", errored |-> FALSE,
     status |-> 0, body |-> NoBody]

NoUnit == [fn |-> <<>>, mode |-> "", called |-> FALSE,
           raised |-> FALSE, value |-> FALSE]

Set(w, rec) == req' = [req EXCEPT ![w] = rec]

Respond(rec, resp) ==
    [rec EXCEPT !.pc = "done", !.status = resp.status, !.body = resp.body]

\* inputs a client sends
Filenames ==
    {<<>>, <<"a">>, <<"a",".","P","N","G">>, <<"b",".","m","p","4">>,
     <<"c",".","g","i","f">>, <<"d",".">>}
FormModes == {"absent", "image", "video", "audio"}
\* a file named like a video holds a video (every size with one frame, one
\* size with every number of frames), one named like an image holds an
\* image, any other holds nothing the libraries decode
ContentsOf(filename) ==
    IF allowed_file(filename, "video").value
    THEN {Content(size, 1, <<>>) : size \in Sizes}
            \cup {Content(<<639, 480>>, n, <<>>) : n \in 0..MaxFrames}
    ELSE IF allowed_file(filename, "image").value
    THEN {Content(<<0, 0>>, 0, boxes) : boxes \in BoxSeqs}
    ELSE {NoContent}

\* inputs of the threaded runs
ThreadedInputs ==
    {[filename |-> <<"a",".","P","N","G">>, form |-> "absent",
      content |-> Content(<<0, 0>>, 0, <<0, 2>>)],
     [filename |-> <<"b",".","m","p","4">>, form |-> "video",
      content |-> Content(<<639, 480>>, 1, <<>>)],
     [filename |-> <<"b",".","m","p","4">>, form |-> "image",
      content |-> Content(<<639, 480>>, 1, <<>>)]}

Init ==
    /\ req = [w \in Workers |-> IdleReq]
    /\ disk = <<>>
    /\ issued = 0
    /\ received = 0
    /\ ut = NoUnit

\* a POST /upload arrives at handler thread w
Receive(w, hasFile, filename, form, content) ==
    /\ req[w].pc = "idle"
    /\ received < MaxRequests
    /\ received' = received + 1
    /\ Set(w, [IdleReq EXCEPT !.pc = "validate", !.id = received + 1,
                              !.hasFile = hasFile, !.filename = filename,
                              !.form = form, !.content = content])
    /\ UNCHANGED <<disk, issued, ut>>

\* a worker that handles one request at a time
SerialReceive(w) ==
    /\ \A v \in Workers : req[v].pc = "idle"
    /\ \/ \E form \in FormModes : Receive(w, FALSE, <<>>, form, NoContent)
       \/ \E filename \in Filenames, form \in FormModes :
             \E content \in ContentsOf(filename) :
                Receive(w, TRUE, filename, form, content)

\* a threaded server: requests are handled side by side; the threads are
\* interchangeable, a request goes to the lowest free one
ThreadedReceive(w) ==
    /\ \A v \in Workers : v < w => req[v].pc # "idle"
    /\ \E i \in ThreadedInputs : Receive(w, TRUE, i.filename, i.form, i.content)

\* lines 98-113: the checks, then the stored name and its path
Validate(w) ==
    LET r == req[w]
        v == Validation(r.hasFile, r.filename, r.form)
        ext == lower(rsplit1(r.filename, ".")[2])
        filename == StoredName(issued + 1, ext)
    IN  /\ r.pc = "validate"
        /\ IF v.pass
           THEN /\ issued' = issued + 1
                /\ Set(w, [r EXCEPT !.pc = "save", !.mode = FormGet(r.form),
                                    !.name = filename,
                                    !.upload_path = join(UPLOAD_FOLDER, filename)])
           ELSE /\ issued' = issued
                /\ Set(w, [Respond(r, v.resp) EXCEPT
                               !.mode = IF r.hasFile THEN FormGet(r.form) ELSE "",
                               !.errored = TRUE])
        /\ UNCHANGED <<disk, received, ut>>

\* lines 114-118: file.save(upload_path), then the result name and path;
\* a failing save leaves nothing or a partial file and reaches the outer
\* handler
Save(w) ==
    LET r == req[w]
    IN  /\ r.pc = "save"
        /\ \/ /\ disk' = WriteFile(disk, r.upload_path, File(r.id, "upload", 0))
              /\ Set(w, [r EXCEPT !.pc = "process",
                            !.result_path = join(RESULT_FOLDER, ResultName(r.name))])
           \/ /\ disk' \in {disk,
                            WriteFile(disk, r.upload_path, File(r.id, "partial", 0))}
              /\ Set(w, [Respond(r, OuterExcept) EXCEPT !.exc = "OSError",
                                                        !.errored = TRUE])
        /\ UNCHANGED <<issued, received, ut>>

\* lines 121-143, 159: the image pipeline: model(upload_path) and
\* results[0].plot() (either may raise), cv2.imwrite (which writes the file,
\* or returns False without writing, or raises), the unique names, the 200
ImagePipeline(w) ==
    LET r == req[w]
    IN  /\ r.pc = "process"
        /\ r.mode = "image"
        /\ \/ /\ disk' = disk
              /\ Set(w, [r EXCEPT !.pc = "except", !.exc = "DetectorError",
                                  !.errored = TRUE])
           \/ /\ disk' \in {disk,
                            WriteFile(disk, r.result_path, File(r.id, "partial", 0))}
              /\ Set(w, [r EXCEPT !.pc = "except", !.exc = "cv2.error",
                                  !.boxes = r.content.boxes, !.errored = TRUE])
           \/ /\ disk' \in {disk,
                            WriteFile(disk, r.result_path, File(r.id, "image", 0))}
              /\ \E shape \in ImageShapes, objs \in DetectedLists(r.content.boxes) :
                    Set(w, Respond([r EXCEPT !.boxes = r.content.boxes],
                        Response(200,
                          [type |-> "image",
                           original |-> UploadUrl(r.name),
                           result |-> ResultUrl(ResultName(r.name)),
                           stats |-> [inference_time |-> 1,
                                      resolution |->
                                          FormatResolution(shape[2], shape[1]),
                                      detected_objects |-> objs]])))
        /\ UNCHANGED <<issued, received, ut>>

(***************************************************************************)
(* process_video(upload_path, result_path), called from line 146.          *)
(***************************************************************************)
\* the way out of process_video and back into upload_file: the finally
\* block (lines 84-89) releases what was acquired, then lines 146-159 build
\* the video payload and the 200; subscripting the failure sentinel raises
\* into the inner handler
ProcessVideoReturn(r, video_stats) ==
    LET h == ReleaseBoth(r.cap, r.out)
        q == [r EXCEPT !.cap = h.cap, !.out = h.out,
                       !.video_stats = video_stats, !.returned = TRUE]
    IN  IF SubscriptRaises(video_stats)
        THEN [q EXCEPT !.pc = "except", !.exc = "TypeError", !.errored = TRUE]
        ELSE Respond(q, Response(200,
                [type |-> "video",
                 original |-> UploadUrl(r.name),
                 result |-> ResultUrl(ResultName(r.name)),
                 stats |-> [resolution |-> video_stats.resolution,
                            fps |-> video_stats.fps,
                            detected_objects |-> <<>>]]))

\* lines 81-83: an exception inside process_video is logged and False is
\* returned
ProcessVideoFails(r) ==
    ProcessVideoReturn([r EXCEPT !.errored = TRUE], FalseStats)

\* lines 55-66: open the source, read fps and the native size, clamp the
\* size, open the writer; a writer that opens creates the file, one that
\* does not open writes nothing; either constructor may raise
PvOpen(w) ==
    LET r == req[w]
        c == [r EXCEPT !.cap = Acquire(TRUE), !.native = r.content.size,
                       !.width = EvenClamp(r.content.size[1]),
                       !.height = EvenClamp(r.content.size[2])]
    IN  /\ r.pc = "process"
        /\ r.mode # "image"
        /\ \/ /\ disk' = disk
              /\ Set(w, ProcessVideoFails(r))
           \/ /\ disk' = disk
              /\ \E fps \in Rates : Set(w, ProcessVideoFails([c EXCEPT !.fps = fps]))
           \/ /\ disk' = WriteFile(disk, r.result_path, File(r.id, "video", 0))
              /\ \E fps \in Rates :
                    Set(w, [c EXCEPT !.pc = "pv_loop", !.fps = fps,
                                     !.out = Acquire(TRUE),
                                     !.writer_size = <<c.width, c.height>>])
           \/ /\ disk' = disk
              /\ \E fps \in Rates :
                    Set(w, [c EXCEPT !.pc = "pv_loop", !.fps = fps,
                                     !.out = Acquire(FALSE),
                                     !.writer_size = <<c.width, c.height>>])
        /\ UNCHANGED <<issued, received, ut>>

\* lines 68-80: one turn of the loop: the end of the stream and the stats,
\* or a frame read, detected, rendered and written, or an exception in one
\* of these calls
PvFrame(w) ==
    LET r == req[w]
    IN  /\ r.pc = "pv_loop"
        /\ \/ /\ r.nread = r.content.frames
              /\ disk' = disk
              /\ Set(w, ProcessVideoReturn(r, Stats(r.width, r.height, r.fps)))
           \/ /\ r.nread < r.content.frames
              /\ disk' = IF r.out.opened /\ r.result_path \in DOMAIN disk
                         THEN [disk EXCEPT ![r.result_path].frames = @ + 1]
                         ELSE disk
              /\ Set(w, [r EXCEPT !.nread = @ + 1])
           \/ /\ disk' = disk
              /\ Set(w, ProcessVideoFails(r))
        /\ UNCHANGED <<issued, received, ut>>

\* lines 160-169: the handler of the inner try: remove the result file if
\* it exists, answer 500
Except(w) ==
    LET r == req[w]
    IN  /\ r.pc = "except"
        /\ disk' = RemoveAll(disk, CleanupPaths(r.upload_path, r.result_path))
        /\ Set(w, Respond(r, Response(500,
                  [error |-> "Error processing file", details |-> r.exc])))
        /\ UNCHANGED <<issued, received, ut>>

\* the response leaves the server; the thread is free again
Deliver(w) ==
    /\ req[w].pc = "done"
    /\ Set(w, IdleReq)
    /\ UNCHANGED <<disk, issued, received, ut>>

Step(w) ==
    \/ Validate(w)
    \/ Save(w)
    \/ ImagePipeline(w)
    \/ PvOpen(w)
    \/ PvFrame(w)
    \/ Except(w)

Next == \E w \in Workers : SerialReceive(w) \/ Step(w) \/ Deliver(w)

Spec == Init /\ [][Next]_vars

\* one request from its arrival to its response; the thread that handles
\* it keeps running: nothing in upload_file waits for another thread
FirstReceive(w) ==
    /\ received = 0
    /\ SerialReceive(w)

FairNext == \E w \in Workers : FirstReceive(w) \/ Step(w) \/ Deliver(w)

FairSpec == Init /\ [][FairNext]_vars /\ \A w \in Workers : WF_vars(Step(w))

ThreadedNext == \E w \in Workers : ThreadedReceive(w) \/ Step(w) \/ Deliver(w)

ThreadedSpec == Init /\ [][ThreadedNext]_vars

(***************************************************************************)
(* allowed_file called on its own, on filenames built from parts.          *)
(***************************************************************************)
Parts ==
    {<<".">>, <<"a">>, <<"p","n","g">>, <<"P","n","G">>, <<"J","P","E","G">>,
     <<"j","p","g">>, <<"m","p","4">>, <<"M","O","V">>, <<"a","v","i">>,
     <<"w","e","b","m">>, <<"g","i","f">>}

RECURSIVE Flatten(_)
Flatten(ps) == IF ps = <<>> THEN <<>> ELSE Head(ps) \o Flatten(Tail(ps))

GenNames == {Flatten(ps) : ps \in UNION {[1..n -> Parts] : n \in 0..MaxParts}}

UnitModes == {"image", "video", "audio"}

UnitInit ==
    /\ req = [w \in Workers |-> IdleReq]
    /\ disk = <<>>
    /\ issued = 0
    /\ received = 0
    /\ \E fn \in GenNames, mode \in UnitModes :
          ut = [NoUnit EXCEPT !.fn = fn, !.mode = mode]

CallAllowedFile ==
    /\ ~ ut.called
    /\ ut' = [ut EXCEPT !.called = TRUE,
                        !.raised = allowed_file(ut.fn, ut.mode).raised,
                        !.value = allowed_file(ut.fn, ut.mode).value]
    /\ UNCHANGED <<req, disk, issued, received>>

UnitNext == CallAllowedFile

UnitSpec == UnitInit /\ [][UnitNext]_vars

(***************************************************************************)
(* Vocabulary of the properties.                                           *)
(***************************************************************************)
Done(w) == req[w].pc = "done"

\* the upload was stored and the pipeline was started
Stored(w) == req[w].result_path # <<>>

OwnedBy(id) == {p \in DOMAIN disk : disk[p].owner = id}

\* two characters that are the same up to case
SameLetter(c, d) ==
    \/ c = d
    \/ \E i \in 1..26 : {c, d} = {UpperCase[i], LowerCase[i]}

\* the allow-lists as the specification words them
ListedExtensions(mode) ==
    IF mode = "image"
    THEN {<<"p","n","g">>, <<"j","p","g">>, <<"j","p","e","g">>}
    ELSE IF mode = "video"
    THEN {<<"m","p","4">>, <<"m","o","v">>, <<"a","v","i">>, <<"w","e","b","m">>}
    ELSE {}

\* the filename has a dot, and what follows its last dot is, up to case,
\* one of the listed extensions of the mode
SuffixListed(fn, mode) ==
    \E i \in 1..Len(fn) :
        /\ fn[i] = "."
        /\ \A j \in (i + 1)..Len(fn) : fn[j] # "."
        /\ \E e \in ListedExtensions(mode) :
              /\ Len(e) = Len(fn) - i
              /\ \A k \in 1..Len(e) : SameLetter(fn[i + k], e[k])

DigitValue(c) == (CHOOSE i \in 1..10 : DigitChars[i] = c) - 1
IsDigit(c) == \E i \in 1..10 : DigitChars[i] = c

RECURSIVE ParseDecimal(_)
ParseDecimal(s) ==
    IF Len(s) = 1 THEN DigitValue(s[1])
    ELSE 10 * ParseDecimal(SubSeq(s, 1, Len(s) - 1)) + DigitValue(s[Len(s)])

\* s reads as "<a>x<b>" with a and b in decimal
ReadsAs(s, a, b) ==
    \E i \in 2..(Len(s) - 1) :
        /\ s[i] = "x"
        /\ \A j \in 1..Len(s) : j # i => IsDigit(s[j])
        /\ ParseDecimal(SubSeq(s, 1, i - 1)) = a
        /\ ParseDecimal(SubSeq(s, i + 1, Len(s))) = b

\* e is the largest even integer not greater than x
IsEvenFloor(e, x) == e % 2 = 0 /\ e <= x /\ x < e + 2

EvenFloor(x) == CHOOSE e \in (x - 1)..x : IsEvenFloor(e, x)

(***************************************************************************)
(* C1: whenever the pipeline of a request fails after the upload was       *)
(* stored (the image pipeline raises, or process_video returns its failure *)
(* sentinel), the request ends with 500 and a body with an 'error' field,  *)
(* and when the response is returned its result file is not on disk.       *)
(***************************************************************************)
C1_FailureCleansUp ==
    \A w \in Workers :
        Done(w) /\ Stored(w) /\ req[w].errored =>
            /\ req[w].status = 500
            /\ "error" \in DOMAIN req[w].body
            /\ req[w].result_path \notin DOMAIN disk

\* a video that failed after the writer had created the file and written a frame
C1_Witness ==
    \E w \in Workers :
        /\ Done(w) /\ Stored(w) /\ req[w].errored
        /\ req[w].mode = "video" /\ req[w].out.opened /\ req[w].nread >= 1
        /\ req[w].status = 500

(***************************************************************************)
(* C2: a request with a file of non-empty filename whose extension is not  *)
(* permitted for the requested mode, or whose mode is not an allowed mode, *)
(* ends with 400 and a body with an 'error' field, never with 500.         *)
(***************************************************************************)
C2_RejectedWith400 ==
    \A w \in Workers :
        /\ Done(w) /\ req[w].hasFile /\ req[w].filename # <<>>
        /\ \/ FormGet(req[w].form) \notin {"image", "video"}
           \/ ~ SuffixListed(req[w].filename, FormGet(req[w].form))
        => /\ req[w].status = 400
           /\ "error" \in DOMAIN req[w].body

(***************************************************************************)
(* C3: for the modes image and video, allowed_file returns true exactly    *)
(* when the filename has a dot and the text after its last dot is, up to   *)
(* case, in the mode's list; every other filename gets false, and the call *)
(* does not raise.                                                         *)
(***************************************************************************)
C3_AllowedFile ==
    ut.called /\ ut.mode \in {"image", "video"} =>
        /\ ~ ut.raised
        /\ ut.value = SuffixListed(ut.fn, ut.mode)

\* a name accepted although its suffix is not typed in lower case
C3_Witness ==
    /\ ut.called /\ ut.mode \in {"image", "video"}
    /\ ut.value
    /\ \E i \in 1..Len(ut.fn) : \E k \in 1..26 : ut.fn[i] = UpperCase[k]

(***************************************************************************)
(* C4: every received request reaches a terminal state, and only one: a    *)
(* response 200, 400 or 500 with a body, which no later step changes; a    *)
(* request that has entered the error path does not answer 200.            *)
(***************************************************************************)
C4_OneTerminalState ==
    /\ \A w \in Workers : (req[w].pc = "validate") ~> Done(w)
    /\ [](\A w \in Workers :
            Done(w) => /\ req[w].status \in {200, 400, 500}
                       /\ req[w].body # NoBody
                       /\ req[w].errored => req[w].status # 200)
    /\ [][\A w \in Workers :
            Done(w) /\ req'[w].pc # "idle" => req'[w] = req[w]]_vars

\* a video whose processing failed has answered 500 through the sentinel
C4_Witness ==
    \E w \in Workers :
        Done(w) /\ req[w].returned /\ req[w].errored /\ req[w].status = 500

(***************************************************************************)
(* C5: two requests that passed validation have distinct stored paths and  *)
(* distinct result paths, the result name being 'result_' plus the         *)
(* request's stored name, and no step of a request writes, overwrites or   *)
(* deletes a file that another request wrote.                              *)
(***************************************************************************)
PathsDistinct ==
    \A v, w \in Workers :
        v # w /\ req[v].upload_path # <<>> /\ req[w].upload_path # <<>> =>
            /\ req[v].upload_path # req[w].upload_path
            /\ req[v].name # req[w].name
            /\ <<"result_">> \o req[v].name # <<"result_">> \o req[w].name
            /\ Stored(v) =>
                  /\ req[v].result_path =
                        <<"static/results", "/", "result_">> \o req[v].name
                  /\ req[v].result_path # req[w].upload_path
                  /\ Stored(w) => req[v].result_path # req[w].result_path

Touched(p) ==
    \/ p \in DOMAIN disk /\ p \notin DOMAIN disk'
    \/ p \in DOMAIN disk /\ p \in DOMAIN disk' /\ disk'[p] # disk[p]

C5_Isolation ==
    [][/\ PathsDistinct'
       /\ \A p \in DOMAIN disk :
             Touched(p) =>
                \E w \in Workers : req[w].id = disk[p].owner /\ req'[w] # req[w]
       /\ \A p \in DOMAIN disk' :
             p \notin DOMAIN disk =>
                \E w \in Workers : req[w].id = disk'[p].owner /\ req'[w] # req[w]
      ]_vars

\* two uploads of the same source, both stored, both being processed
C5_Witness ==
    \E v, w \in Workers :
        /\ v # w
        /\ req[v].filename = req[w].filename
        /\ req[v].pc = "pv_loop" /\ req[w].pc = "pv_loop"
        /\ req[v].result_path \in DOMAIN disk
        /\ req[w].result_path \in DOMAIN disk

(***************************************************************************)
(* C6: a successful video upload of native size w x h reports the          *)
(* resolution "WxH", W and H the largest even integers not above w and h   *)
(* (odd: one less; even: unchanged; 639x480 gives 638x480), and the writer *)
(* was opened with (W, H).                                                 *)
(***************************************************************************)
C6_EvenClampedResolution ==
    \A w \in Workers :
        Done(w) /\ req[w].status = 200 /\ req[w].mode = "video" =>
            LET nw == req[w].native[1]
                nh == req[w].native[2]
                W  == EvenFloor(nw)
                H  == EvenFloor(nh)
            IN  /\ ReadsAs(req[w].body.stats.resolution, W, H)
                /\ req[w].writer_size = <<W, H>>
                /\ W = (IF nw % 2 = 1 THEN nw - 1 ELSE nw)
                /\ H = (IF nh % 2 = 1 THEN nh - 1 ELSE nh)
                /\ req[w].native = <<639, 480>> =>
                      req[w].body.stats.resolution =
                          <<"6","3","8","x","4","8","0">>

\* the 639x480 source has been answered
C6_Witness ==
    \E w \in Workers :
        /\ Done(w) /\ req[w].status = 200 /\ req[w].mode = "video"
        /\ req[w].native = <<639, 480>>

(***************************************************************************)
(* C7: a request with a file part of empty filename ends with 400 and      *)
(* exactly {"error": "No selected file"}, whatever its mode field, and     *)
(* stores nothing.                                                         *)
(***************************************************************************)
C7_NoSelectedFile ==
    \A w \in Workers :
        Done(w) /\ req[w].hasFile /\ req[w].filename = <<>> =>
            /\ req[w].status = 400
            /\ req[w].body = [error |-> "No selected file"]
            /\ req[w].upload_path = <<>>
            /\ OwnedBy(req[w].id) = {}

\* an empty filename with an unsupported mode has been answered
C7_Witness ==
    \E w \in Workers :
        /\ Done(w) /\ req[w].hasFile /\ req[w].filename = <<>>
        /\ req[w].form = "audio"

(***************************************************************************)
(* C8: detected_objects of a successful image upload has no duplicates,    *)
(* holds exactly the names of the classes of the detected boxes, and is no *)
(* longer than the number of boxes.                                        *)
(***************************************************************************)
C8_UniqueDetectedObjects ==
    \A w \in Workers :
        Done(w) /\ req[w].status = 200 /\ req[w].mode = "image" =>
            LET objs  == req[w].body.stats.detected_objects
                boxes == req[w].boxes
            IN  /\ \A i, j \in 1..Len(objs) : i # j => objs[i] # objs[j]
                /\ {objs[i] : i \in 1..Len(objs)} =
                      {names[boxes[i]] : i \in 1..Len(boxes)}
                /\ Len(objs) <= Len(boxes)

\* two boxes of one name have been reported as one name
C8_Witness ==
    \E w \in Workers :
        /\ Done(w) /\ req[w].status = 200 /\ req[w].mode = "image"
        /\ Len(req[w].boxes) = 2
        /\ Len(req[w].body.stats.detected_objects) = 1

(***************************************************************************)
(* C9: when process_video has returned, every handle it acquired is        *)
(* released and no handle it did not acquire is; until then no handle is.  *)
(***************************************************************************)
C9_HandlesReleased ==
    \A w \in Workers :
        /\ req[w].returned =>
              /\ req[w].cap.released = req[w].cap.acquired
              /\ req[w].out.released = req[w].out.acquired
        /\ ~ req[w].returned =>
              ~ req[w].cap.released /\ ~ req[w].out.released

\* the writer could not be constructed: the capture alone was released
C9_Witness ==
    \E w \in Workers :
        /\ req[w].returned
        /\ req[w].cap.acquired /\ req[w].cap.released
        /\ ~ req[w].out.acquired

(***************************************************************************)
(* C10: no step deletes or rewrites a file of the uploads directory; a     *)
(* stored upload appears only in the save of a request that passed the     *)
(* checks; a 400 leaves the disk as it was; a 200 or a processing 500      *)
(* finds the request's upload on disk as it was saved; what the cleanup    *)
(* removes is the request's result file.                                   *)
(***************************************************************************)
C10_UploadsKept ==
    [][/\ \A p \in DOMAIN disk :
             InUploads(p) => p \in DOMAIN disk' /\ disk'[p] = disk[p]
       /\ \A p \in DOMAIN disk' :
             InUploads(p) /\ p \notin DOMAIN disk =>
                \E w \in Workers :
                    /\ req[w].pc = "save"
                    /\ req[w].upload_path = p
                    /\ req[w].filename # <<>>
                    /\ SuffixListed(req[w].filename, req[w].mode)
       /\ \A w \in Workers :
             req'[w].pc = "done" /\ req[w].pc # "done" /\ req'[w].status = 400 =>
                /\ disk' = disk
                /\ OwnedBy(req[w].id) = {}
       /\ \A w \in Workers :
             /\ req'[w].pc = "done" /\ req[w].pc # "done"
             /\ req'[w].result_path # <<>>
             => /\ req'[w].upload_path \in DOMAIN disk'
                /\ disk'[req'[w].upload_path] = File(req'[w].id, "upload", 0)
       /\ \A p \in DOMAIN disk :
             p \notin DOMAIN disk' =>
                \E w \in Workers :
                    req[w].pc = "except" /\ p = req[w].result_path
      ]_vars

\* a processing failure has been answered and the upload is still there
C10_Witness ==
    \E w \in Workers :
        /\ Done(w) /\ req[w].status = 500 /\ Stored(w)
        /\ req[w].upload_path \in DOMAIN disk

====
